---- MODULE Spec2Model ----
(***************************************************************************)
(* Trigger-Deployment: a web front end that shells out to kubectl.         *)
(*                                                                         *)
(* Three deployable applications are modelled, selected by `version`:      *)
(*   1    src/version1/app.py   stateless handlers, temporary kubeconfig   *)
(*   2    src/version2/WebEnhancer/WebEnhancer/app.py   session "connect"  *)
(*   4    src/version4/app.py   version 2 plus login and the audit log     *)
(*                                                                         *)
(* Text is a sequence of symbols: single characters, or an opaque atom     *)
(* (a bearer token "T1", an endpoint "E1", a literal piece of an f-string) *)
(* that stands for a run of characters without whitespace.                 *)
(***************************************************************************)
EXTENDS Integers, Sequences, FiniteSets, TLC

VARIABLES
    version,      \* which application is running: 1, 2 or 4
    nreq,         \* number of requests received so far, logout aside
    req,          \* version1: per worker, the handler's position and locals
    fs,           \* version1: the temporary directory, path -> file
    kubectlAt,    \* version1: where the kubectl binary is: "path", "tmp", "none"
    scriptOk,     \* version1: install_kubectl.sh exists and is executable
    environ,      \* version1: os.environ of the web process
    session,      \* version2/4: per browser, the Flask session dictionary
    handler,      \* version2/4: per browser, the running handler's position and locals
    kubeconfig,   \* version2/4: the web process's default kubeconfig file
    audit,        \* version4: the audit_logs table
    login,        \* version4: per browser, the logged-in user (flask_login)
    users         \* version4: the users table, username -> row

vars == <<version, nreq, req, fs, kubectlAt, scriptOk, environ,
          session, handler, kubeconfig, audit, login, users>>

v1vars == <<req, fs, kubectlAt, scriptOk, environ>>
v2vars == <<session, handler, kubeconfig, audit, login, users>>

----------------------------------------------------------------------------
(* Bounds *)

\* requests received by version1, and by version2/4
MaxV1Requests == 2

MaxRequests == 3

None == "<none>"

----------------------------------------------------------------------------
(* Text *)

KUBECTL == <<"k", "u", "b", "e", "c", "t", "l">>

Whitespace == {" ", "\t", "\n"}

Digits == {"0", "1", "2", "3", "4", "5", "6", "7", "8", "9"}

DigitVal(c) ==
    CASE c = "0" -> 0 [] c = "1" -> 1 [] c = "2" -> 2 [] c = "3" -> 3
      [] c = "4" -> 4 [] c = "5" -> 5 [] c = "6" -> 6 [] c = "7" -> 7
      [] c = "8" -> 8 [] c = "9" -> 9

RECURSIVE LStrip(_)
LStrip(s) ==
    IF s # <<>> /\ Head(s) \in Whitespace THEN LStrip(Tail(s)) ELSE s

RECURSIVE RStrip(_)
RStrip(s) ==
    IF s # <<>> /\ s[Len(s)] \in Whitespace
    THEN RStrip(SubSeq(s, 1, Len(s) - 1))
    ELSE s

\* str.strip()
Strip(s) == RStrip(LStrip(s))

\* str.startswith(prefix)
StartsWith(s, prefix) ==
    /\ Len(s) >= Len(prefix)
    /\ SubSeq(s, 1, Len(prefix)) = prefix

RECURSIVE SplitFrom(_, _, _)
SplitFrom(s, cur, acc) ==
    IF s = <<>>
    THEN IF cur = <<>> THEN acc ELSE Append(acc, cur)
    ELSE IF Head(s) \in Whitespace
         THEN SplitFrom(Tail(s), <<>>, IF cur = <<>> THEN acc ELSE Append(acc, cur))
         ELSE SplitFrom(Tail(s), Append(cur, Head(s)), acc)

\* str.split() with no separator: the maximal runs of non-whitespace
Split(s) == SplitFrom(s, <<>>, <<>>)

RECURSIVE DigitsValue(_, _)
DigitsValue(s, acc) ==
    IF s = <<>> THEN acc ELSE DigitsValue(Tail(s), 10 * acc + DigitVal(Head(s)))

AllDigits(s) == s # <<>> /\ \A i \in 1..Len(s) : s[i] \in Digits

\* int(text): surrounding whitespace is dropped, one optional sign, then one
\* or more decimal digits; anything else raises ValueError (ok = FALSE).
ParseInt(text) ==
    LET s == Strip(text)
        signed == s # <<>> /\ Head(s) \in {"+", "-"}
        body == IF signed THEN Tail(s) ELSE s
    IN  IF AllDigits(body)
        THEN [ok |-> TRUE,
              val |-> IF signed /\ Head(s) = "-"
                      THEN 0 - DigitsValue(body, 0)
                      ELSE DigitsValue(body, 0)]
        ELSE [ok |-> FALSE, val |-> 0]

\* request.form.get(key, default)
FormGet(form, key, default) ==
    IF key \in DOMAIN form THEN form[key] ELSE default

\* the value of `x or y` for text
OrElse(x, y) == IF x = <<>> THEN y ELSE x

Contains(text, sym) == \E i \in 1..Len(text) : text[i] = sym

----------------------------------------------------------------------------
(* The outside world: clients, child processes, the temporary directory *)

Workers == {"w1", "w2"}

Browsers == {"b1", "b2"}

\* Each client owns one cluster: its endpoint and its bearer token.
EndpointOf(c) == IF c \in {"w1", "b1"} THEN "E1" ELSE "E2"
TokenOf(c) == IF c \in {"w1", "b1"} THEN "T1" ELSE "T2"

Tokens == {"T1", "T2"}

\* What a child process does once started: it exits with a return code and
\* its two captured streams, or it never exits.
Outcomes ==
    { [hang |-> FALSE, rc |-> 0, out |-> <<"o">>, err |-> <<>>],
      [hang |-> FALSE, rc |-> 1, out |-> <<>>, err |-> <<"e">>],
      [hang |-> TRUE, rc |-> 0, out |-> <<>>, err |-> <<>>] }

\* The connectivity probe may also fail without writing to stderr, the one
\* case the code tells apart.
ProbeOutcomes ==
    Outcomes \cup { [hang |-> FALSE, rc |-> 1, out |-> <<>>, err |-> <<>>] }

NoTimeout == 0

\* A started child process.  kubeconfig is the KUBECONFIG override (0: the
\* default file); server and token are what kubectl resolves from the
\* kubeconfig in effect when it starts; exit is how the child ends.
Proc(argv0, verb, args, stdin, kc, server, token, timeout, o) ==
    [argv0 |-> argv0, verb |-> verb, args |-> args, stdin |-> stdin,
     kubeconfig |-> kc, server |-> server, token |-> token, timeout |-> timeout,
     exit |-> o]

NoManifest == [kind |-> "none"]

NoResult == [code |-> 0]

Paths == 1..MaxV1Requests

\* A file of the temporary directory; by is the worker whose request made it.
NoFile == [exists |-> FALSE, by |-> None, written |-> FALSE, server |-> <<>>,
           token |-> <<>>, namespace |-> <<>>, insecure |-> FALSE, ca |-> <<>>]

----------------------------------------------------------------------------
(* version1: helpers *)

INSTALL_SCRIPT == <<"install_kubectl.sh">>

V1Handlers == {"deploy", "service", "custom", "delete"}

ReplicaInputs == { <<"3">>, <<"-", "1">>, <<"a", "b", "c">>, <<" ", "2">> }

V1Creds(w) == [api |-> <<EndpointOf(w)>>, token |-> <<TokenOf(w)>>]

\* The forms a client may post to each route.  The first client posts every
\* form; the second, present for the interleavings, posts one of them.
V1AllForms(w, h) ==
    CASE h = "deploy" ->
           { V1Creds(w) @@ [name |-> <<"a">>, image |-> <<"i">>],
             V1Creds(w) @@ [name |-> <<" ">>, image |-> <<"i">>],
             V1Creds(w) @@ [name |-> <<"a">>, image |-> <<"i", "\n", "k">>] }
           \cup { V1Creds(w) @@ [name |-> <<"a">>, image |-> <<"i">>, replicas |-> r] :
                    r \in ReplicaInputs }
      [] h = "service" ->
           { V1Creds(w) @@ [name |-> <<"a">>, port |-> <<"8", "1">>],
             V1Creds(w) @@ [name |-> <<"a">>, port |-> <<"8", "1">>,
                            targetPort |-> <<"9">>] }
      [] h = "custom" ->
           { V1Creds(w) @@ [yaml |-> y] : y \in { <<" ">>, <<"y">> } }
      [] h = "delete" ->
           { V1Creds(w) @@ [kind |-> <<"pod">>, name |-> <<"a">>] @@ tls :
               tls \in { <<>>, [ca_cert |-> <<"PEM">>],
                         [skip_tls |-> <<"on">>, ca_cert |-> <<"PEM">>] } }

V1Forms(w, h) ==
    IF w = "w1"
    THEN V1AllForms(w, h)
    ELSE IF h = "deploy"
    THEN { V1Creds(w) @@ [name |-> <<"a">>, image |-> <<"i">>] }
    ELSE {}

\* V1Field without .strip()
V1FieldRaw(form, key) == FormGet(form, key, <<>>)

\* request.form.get(key, "").strip()
V1Field(form, key) == Strip(FormGet(form, key, <<>>))

V1Namespace(form) ==
    OrElse(Strip(FormGet(form, "namespace", <<"default">>)), <<"default">>)

V1Required(h) ==
    CASE h = "deploy" -> {"api", "token", "name", "image"}
      [] h = "service" -> {"api", "token", "name"}
      [] h = "custom" -> {"api", "token", "yaml"}
      [] h = "delete" -> {"api", "token", "kind", "name"}

V1Valid(h, form) == \A k \in V1Required(h) : V1Field(form, k) # <<>>

V1DeployYaml(form) ==
    [kind |-> "Deployment",
     name |-> V1Field(form, "name"),
     image |-> V1Field(form, "image"),
     replicas |-> Strip(FormGet(form, "replicas", <<"1">>))]

V1ServiceYaml(form) ==
    LET port == Strip(FormGet(form, "port", <<"8", "0">>))
        target == Strip(FormGet(form, "targetPort", port))
    IN  [kind |-> "Service",
         name |-> V1Field(form, "name"),
         port |-> port,
         targetPort |-> target]

\* The f-string of deploy with the values of m pasted in: the text that
\* kubectl reads from its standard input
V1DeployText(m) ==
    <<"apiVersion: apps/v1", "\n", "kind: Deployment", "\n", "metadata:", "\n",
      "  name: ">> \o m.name \o <<"\n", "  labels:", "\n",
      "    app: ">> \o m.name \o <<"\n", "spec:", "\n",
      "  replicas: ">> \o m.replicas \o <<"\n", "  selector:", "\n",
      "    matchLabels:", "\n",
      "      app: ">> \o m.name \o <<"\n", "  template:", "\n",
      "    metadata:", "\n", "      labels:", "\n",
      "        app: ">> \o m.name \o <<"\n", "    spec:", "\n",
      "      containers:", "\n",
      "      - name: ">> \o m.name \o <<"\n",
      "        image: ">> \o m.image \o <<"\n">>

\* The f-string of service with the values of m pasted in
V1ServiceText(m) ==
    <<"apiVersion: v1", "\n", "kind: Service", "\n", "metadata:", "\n",
      "  name: ">> \o m.name \o <<"\n", "spec:", "\n", "  selector:", "\n",
      "    app: ">> \o m.name \o <<"\n", "  ports:", "\n",
      "    - protocol: TCP", "\n",
      "      port: ">> \o m.port \o <<"\n",
      "      targetPort: ">> \o m.targetPort \o <<"\n",
      "  type: ClusterIP", "\n">>

V1Text(m) ==
    CASE m.kind = "Deployment" -> V1DeployText(m)
      [] m.kind = "Service" -> V1ServiceText(m)

V1Yaml(h, form) ==
    CASE h = "deploy" -> V1DeployYaml(form)
      [] h = "service" -> V1ServiceYaml(form)
      [] h = "custom" -> [kind |-> "Raw", text |-> V1Field(form, "yaml")]
      [] h = "delete" -> NoManifest

\* base64.b64encode(text.encode()).decode()
Base64(text) == <<"base64">> \o text

\* V1Kubeconfig with the certificate embedded whenever one is given
V1KubeconfigBothModes(w, form) ==
    LET skip_tls == FormGet(form, "skip_tls", <<>>) # <<>>
        ca_pem == V1Field(form, "ca_cert")
    IN  [exists |-> TRUE, by |-> w, written |-> TRUE,
         server |-> V1Field(form, "api"),
         token |-> V1Field(form, "token"),
         namespace |-> V1Namespace(form),
         insecure |-> skip_tls,
         ca |-> IF ca_pem # <<>> THEN Base64(ca_pem) ELSE <<>>]

\* build_kubeconfig: the document written to the temporary file
V1Kubeconfig(w, form) ==
    LET skip_tls == FormGet(form, "skip_tls", <<>>) # <<>>
        ca_pem == V1Field(form, "ca_cert")
    IN  [exists |-> TRUE, by |-> w, written |-> TRUE,
         server |-> V1Field(form, "api"),
         token |-> V1Field(form, "token"),
         namespace |-> V1Namespace(form),
         insecure |-> skip_tls,
         ca |-> IF ~skip_tls /\ ca_pem # <<>> THEN Base64(ca_pem) ELSE <<>>]

EmptyFile(w) == [NoFile EXCEPT !.exists = TRUE, !.by = w]

\* FreshPath for a naming scheme that always yields the same name
PredictablePath == CHOOSE p \in Paths : \A q \in Paths : p <= q

\* tempfile.mkstemp: a name no existing file has
FreshPath == CHOOSE p \in Paths : ~fs[p].exists /\ \A q \in Paths : ~fs[q].exists => p <= q

\* The environment the web process is started in, as far as kubectl reads
\* it: KUBECONFIG names the default kubeconfig (path 0).
StartEnviron == [KUBECONFIG |-> 0]

IdleReq == [pc |-> "idle", handler |-> None, form |-> <<>>, yaml_text |-> NoManifest,
            path |-> 0, kc_path |-> 0, procs |-> <<>>, result |-> NoResult]

\* V1Failure rendered as a success
V1FailureAsSuccess(text) == [code |-> 200, ok |-> TRUE, stdout |-> <<>>, stderr |-> text]

\* kubectl_path() raised: result.html with ok=False and str(e) as stderr
V1Failure(text) == [code |-> 200, ok |-> FALSE, stdout |-> <<>>, stderr |-> text]

V1Raised(exc) == [code |-> 500, ok |-> FALSE, stdout |-> <<>>, stderr |-> <<exc>>]

----------------------------------------------------------------------------
(* version1: the handlers deploy, service, custom and delete, step by step *)

V1Set(w, r) == req' = [req EXCEPT ![w] = r]

\* A request arrives: the fields are read and checked and the manifest is
\* rendered; a missing field ends the request with 400.
V1Request(w, h, form) ==
    /\ version = 1
    /\ req[w].pc \in {"idle", "done"}
    /\ nreq < MaxV1Requests
    /\ nreq' = nreq + 1
    /\ IF V1Valid(h, form)
       THEN V1Set(w, [IdleReq EXCEPT !.pc = "kubectl_path", !.handler = h,
                                     !.form = form, !.yaml_text = V1Yaml(h, form)])
       ELSE V1Set(w, [IdleReq EXCEPT !.pc = "done", !.handler = h, !.form = form,
                                     !.result = [code |-> 400, ok |-> FALSE,
                                                 stdout |-> <<>>,
                                                 stderr |-> <<"required">>]])
    /\ UNCHANGED <<version, fs, kubectlAt, scriptOk, environ, v2vars>>

\* What the install script leaves behind when it exits 0.
Installs == {"path", "tmp", "nothing"}

KubectlAfter(installed) ==
    IF installed = "nothing" \/ kubectlAt = "path" THEN kubectlAt ELSE installed

\* kubectl_path(): found on the search path, or one run of the install
\* script followed by a second look.
V1KubectlPath(w, o, installed) ==
    LET r == req[w]
        script == Proc(INSTALL_SCRIPT, "install", <<>>, NoManifest, 0, <<>>, <<>>, NoTimeout, o)
        ran == [r EXCEPT !.procs = Append(r.procs, script)]
    IN
    /\ version = 1
    /\ r.pc = "kubectl_path"
    /\ IF kubectlAt = "path"
       THEN /\ V1Set(w, [r EXCEPT !.pc = "mkstemp"])
            /\ UNCHANGED kubectlAt
       ELSE IF ~scriptOk
       THEN /\ V1Set(w, [r EXCEPT !.pc = "done",
                                  !.result = V1Failure(<<"kubectl not found">>)])
            /\ UNCHANGED kubectlAt
       ELSE IF o.hang
       THEN /\ V1Set(w, [ran EXCEPT !.pc = "blocked"])
            /\ UNCHANGED kubectlAt
       ELSE IF o.rc # 0
       THEN /\ V1Set(w, [ran EXCEPT !.pc = "done",
                                    !.result = V1Failure(<<"Failed to install kubectl">>)])
            /\ UNCHANGED kubectlAt
       ELSE /\ kubectlAt' = KubectlAfter(installed)
            /\ IF kubectlAt' \in {"path", "tmp"}
               THEN V1Set(w, [ran EXCEPT !.pc = "mkstemp"])
               ELSE V1Set(w, [ran EXCEPT !.pc = "done",
                                         !.result = V1Failure(<<"kubectl not found">>)])
    /\ UNCHANGED <<version, nreq, fs, scriptOk, environ, v2vars>>

\* build_kubeconfig, first half: tempfile.mkstemp creates the file, or raises.
V1Mkstemp(w, ok) ==
    LET r == req[w] IN
    /\ version = 1
    /\ r.pc = "mkstemp"
    /\ IF ok
       THEN /\ fs' = [fs EXCEPT ![FreshPath] = EmptyFile(w)]
            /\ V1Set(w, [r EXCEPT !.pc = "write", !.path = FreshPath])
       ELSE /\ V1Set(w, [r EXCEPT !.pc = "finally", !.result = V1Raised("OSError")])
            /\ UNCHANGED fs
    /\ UNCHANGED <<version, nreq, kubectlAt, scriptOk, environ, v2vars>>

\* build_kubeconfig, second half: yaml.safe_dump writes the document and the
\* path is returned to the handler, or the write raises.
V1Write(w, ok) ==
    LET r == req[w] IN
    /\ version = 1
    /\ r.pc = "write"
    /\ IF ok
       THEN /\ fs' = [fs EXCEPT ![r.path] = V1Kubeconfig(w, r.form)]
            /\ V1Set(w, [r EXCEPT !.pc = IF r.handler = "delete" THEN "delete" ELSE "probe",
                                  !.kc_path = r.path])
       ELSE /\ V1Set(w, [r EXCEPT !.pc = "finally", !.result = V1Raised("OSError")])
            /\ UNCHANGED fs
    /\ UNCHANGED <<version, nreq, kubectlAt, scriptOk, environ, v2vars>>

\* ChildEnv for `env = os.environ`, the environment itself and no copy
ChildEnvShared(env, kubeconfig_path) ==
    [parent |-> ("KUBECONFIG" :> kubeconfig_path) @@ env,
     child |-> ("KUBECONFIG" :> kubeconfig_path) @@ env]

\* env = os.environ.copy(); env["KUBECONFIG"] = kubeconfig_path: the web
\* process's environment after the two statements, and the child's
ChildEnv(env, kubeconfig_path) ==
    [parent |-> env,
     child |-> ("KUBECONFIG" :> kubeconfig_path) @@ env]

\* A kubectl child of version1: started by the bare name "kubectl" with
\* KUBECONFIG pointing at the request's file, and no timeout.
V1Kubectl(r, verb, stdin, o) ==
    LET kc == ChildEnv(environ, r.kc_path).child["KUBECONFIG"] IN
    Proc(KUBECTL, verb, <<>>, stdin, kc, fs[kc].server, fs[kc].token, NoTimeout, o)

\* V1Finished that reports success whatever the return code
V1FinishedAlwaysOk(o) == [code |-> 200, ok |-> TRUE, stdout |-> o.out, stderr |-> o.err]

\* The result of a finished child: (returncode == 0, stdout, stderr)
V1Finished(o) == [code |-> 200, ok |-> (o.rc = 0), stdout |-> o.out, stderr |-> o.err]

\* V1ProbeFailure without the fallback text
V1ProbeFailureNoFallback(o) ==
    [code |-> 200, ok |-> FALSE, stdout |-> o.out, stderr |-> o.err]

\* The probe's failure: its stderr, or a fixed text when that is empty
V1ProbeFailure(o) ==
    [code |-> 200, ok |-> FALSE, stdout |-> o.out,
     stderr |-> OrElse(o.err, <<"Connectivity check failed">>)]

\* run_kubectl_apply, first half: the connectivity probe `kubectl get ns`.
V1Probe(w, o) ==
    LET r == req[w]
        ran == [r EXCEPT !.procs = Append(r.procs, V1Kubectl(r, "get ns", NoManifest, o))]
    IN
    /\ version = 1
    /\ r.pc = "probe"
    /\ IF kubectlAt # "path"
       THEN V1Set(w, [r EXCEPT !.pc = "finally", !.result = V1Raised("FileNotFoundError")])
       ELSE IF o.hang
       THEN V1Set(w, [ran EXCEPT !.pc = "blocked"])
       ELSE IF o.rc # 0
       THEN V1Set(w, [ran EXCEPT !.pc = "finally", !.result = V1ProbeFailure(o)])
       ELSE V1Set(w, [ran EXCEPT !.pc = "apply"])
    /\ environ' = ChildEnv(environ, r.kc_path).parent
    /\ UNCHANGED <<version, nreq, fs, kubectlAt, scriptOk, v2vars>>

\* run_kubectl_apply, second half: `kubectl apply -n <namespace> -f -`.
V1Apply(w, o) ==
    LET r == req[w]
        ran == [r EXCEPT !.procs = Append(r.procs, V1Kubectl(r, "apply", r.yaml_text, o))]
    IN
    /\ version = 1
    /\ r.pc = "apply"
    /\ IF kubectlAt # "path"
       THEN V1Set(w, [r EXCEPT !.pc = "finally", !.result = V1Raised("FileNotFoundError")])
       ELSE IF o.hang
       THEN V1Set(w, [ran EXCEPT !.pc = "blocked"])
       ELSE V1Set(w, [ran EXCEPT !.pc = "finally", !.result = V1Finished(o)])
    /\ environ' = ChildEnv(environ, r.kc_path).parent
    /\ UNCHANGED <<version, nreq, fs, kubectlAt, scriptOk, v2vars>>

\* run_kubectl_delete: `kubectl delete <kind> <name> -n <namespace>`.
V1Delete(w, o) ==
    LET r == req[w]
        ran == [r EXCEPT !.procs = Append(r.procs, V1Kubectl(r, "delete", NoManifest, o))]
    IN
    /\ version = 1
    /\ r.pc = "delete"
    /\ IF kubectlAt # "path"
       THEN V1Set(w, [r EXCEPT !.pc = "finally", !.result = V1Raised("FileNotFoundError")])
       ELSE IF o.hang
       THEN V1Set(w, [ran EXCEPT !.pc = "blocked"])
       ELSE V1Set(w, [ran EXCEPT !.pc = "finally", !.result = V1Finished(o)])
    /\ environ' = ChildEnv(environ, r.kc_path).parent
    /\ UNCHANGED <<version, nreq, fs, kubectlAt, scriptOk, v2vars>>

\* V1Removed for a finally clause that removes nothing
V1RemovedNothing(r) == {}

\* The file the finally clause removes: kc_path, when set and present
V1Removed(r) == IF r.kc_path # 0 /\ fs[r.kc_path].exists THEN {r.kc_path} ELSE {}

\* finally: remove the kubeconfig the handler knows of, then return.
V1Finally(w) ==
    LET r == req[w] IN
    /\ version = 1
    /\ r.pc = "finally"
    /\ fs' = [p \in Paths |-> IF p \in V1Removed(r) THEN NoFile ELSE fs[p]]
    /\ V1Set(w, [r EXCEPT !.pc = "done"])
    /\ UNCHANGED <<version, nreq, kubectlAt, scriptOk, environ, v2vars>>

V1Next ==
    \/ \E w \in Workers, h \in V1Handlers : \E form \in V1Forms(w, h) : V1Request(w, h, form)
    \/ \E w \in Workers, o \in Outcomes, i \in Installs : V1KubectlPath(w, o, i)
    \/ \E w \in Workers, ok \in BOOLEAN : V1Mkstemp(w, ok)
    \/ \E w \in Workers, ok \in BOOLEAN : V1Write(w, ok)
    \/ \E w \in Workers, o \in ProbeOutcomes : V1Probe(w, o)
    \/ \E w \in Workers, o \in Outcomes : V1Apply(w, o)
    \/ \E w \in Workers, o \in Outcomes : V1Delete(w, o)
    \/ \E w \in Workers : V1Finally(w)

----------------------------------------------------------------------------
(* version2 and version4: sessions, the shared kubeconfig, the audit log *)

V4 == version = 4

ClusterNames == { <<"c1">>, <<"c2">> }

UserOf(cluster_name) == cluster_name \o <<"-user">>

EmptyKubeconfig == [clusters |-> <<>>, users |-> <<>>, contexts |-> <<>>, current |-> <<>>]

\* f[k] set to v in a mapping whose domain grows
Put(f, k, v) == (k :> v) @@ f

\* PopAll as dict.clear()
PopEverything(f, keys) == <<>>

\* dict.pop(key, None) for each key of keys
PopAll(f, keys) == [k \in (DOMAIN f) \ keys |-> f[k]]

\* session.get(key, default)
SessionGet(b, key, default) ==
    IF key \in DOMAIN session[b] THEN session[b][key] ELSE default

Connected(b) == "cluster_connected" \in DOMAIN session[b]

\* The cluster a kubectl child reaches through the default kubeconfig: the
\* server and the token of the current context.
CurrentServer ==
    LET k == kubeconfig IN
    IF k.current \in DOMAIN k.contexts /\ k.contexts[k.current].cluster \in DOMAIN k.clusters
    THEN k.clusters[k.contexts[k.current].cluster]
    ELSE <<>>

CurrentToken ==
    LET k == kubeconfig IN
    IF k.current \in DOMAIN k.contexts /\ k.contexts[k.current].user \in DOMAIN k.users
    THEN k.users[k.contexts[k.current].user]
    ELSE <<>>

KubectlTimeout == 30

YamlTimeout == 60

\* A kubectl child of version2/4: the default kubeconfig is in effect.
V2Kubectl(argv0, verb, args, stdin, timeout, o) ==
    Proc(argv0, verb, args, stdin, 0, CurrentServer, CurrentToken, timeout, o)

IdleHandler == [pc |-> "idle", route |-> None, form |-> <<>>, procs |-> <<>>,
                status |-> None, flash |-> <<>>]

\* The handler returned: its flashed message (or JSON body) and category.
Returned(h, status, text) == [h EXCEPT !.pc = "idle", !.status = status, !.flash = text]

Started(route) == [IdleHandler EXCEPT !.route = route]

Ran(h, p) == [h EXCEPT !.procs = Append(h.procs, p)]

Blocked(h) == [h EXCEPT !.pc = "blocked"]

\* login_required: version4 turns an anonymous caller away.
LoginRequired(b) == V4 /\ login[b] = None

\* log_audit_action: one row, written only for an authenticated user
AuditRow(b, action, resource_name, cluster_name, command, status, output) ==
    [user_id |-> login[b], action |-> action, resource_name |-> resource_name,
     cluster_name |-> cluster_name, command |-> command, status |-> status,
     output |-> output]

Logged(b, action, resource_name, cluster_name, command, status, output) ==
    IF V4 /\ login[b] # None
    THEN Append(audit, AuditRow(b, action, resource_name, cluster_name, command,
                                status, output))
    ELSE audit

SessionCluster(b) == SessionGet(b, "cluster_name", <<"unknown">>)

----------------------------------------------------------------------------
(* version2 and version4: connect_cluster and validate_cluster_connection *)

\* The first browser posts every form of every route; the second, present
\* for the interleavings, connects under either name and posts one form.
Only(b, forms, one) == IF b = "b1" THEN forms ELSE one

ConnectForms(b) ==
    Only(b, { [endpoint |-> <<EndpointOf(b)>>, cluster_name |-> <<"c1">>,
               token |-> <<TokenOf(b)>>],
              [endpoint |-> <<EndpointOf(b)>>, cluster_name |-> <<"c1">>,
               token |-> <<" ">>] },
            { [endpoint |-> <<EndpointOf(b)>>, cluster_name |-> n, token |-> <<TokenOf(b)>>] :
                n \in ClusterNames })

H2Set(b, h) == handler' = [handler EXCEPT ![b] = h]

\* connect_cluster up to the call of validate_cluster_connection
ConnectCluster(b, form) ==
    LET h == [Started("connect_cluster") EXCEPT !.form = form] IN
    /\ version \in {2, 4}
    /\ handler[b].pc = "idle"
    /\ nreq < MaxRequests
    /\ nreq' = nreq + 1
    /\ IF LoginRequired(b)
       THEN H2Set(b, Returned(h, "login", <<>>))
       ELSE IF \E k \in {"endpoint", "cluster_name", "token"} : Strip(form[k]) = <<>>
       THEN H2Set(b, Returned(h, "error", <<"All cluster connection fields are required">>))
       ELSE H2Set(b, [h EXCEPT !.pc = "set_cluster"])
    /\ UNCHANGED <<version, v1vars, session, kubeconfig, audit, login, users>>

\* connect_cluster after validate_cluster_connection returned (False, stderr)
ConnectFailed(b, h, stderr) ==
    LET name == Strip(h.form.cluster_name)
        endpoint == Strip(h.form.endpoint)
    IN
    /\ H2Set(b, Returned(h, "error", <<"Failed to connect to cluster: ">> \o stderr))
    /\ audit' = Logged(b, "connect_cluster", name, name,
                       <<"Failed to connect to cluster ">> \o name \o <<" at ">> \o endpoint,
                       "failed", stderr)
    /\ UNCHANGED session

\* connect_cluster after validate_cluster_connection returned (True, stdout)
ConnectSucceeded(b, h, stdout) ==
    LET name == Strip(h.form.cluster_name)
        endpoint == Strip(h.form.endpoint)
        token == Strip(h.form.token)
    IN
    /\ session' = [session EXCEPT ![b] =
                     Put(Put(Put(Put(@, "cluster_connected", <<"True">>),
                                 "cluster_endpoint", endpoint),
                             "cluster_name", name),
                         "cluster_token", token)]
    /\ H2Set(b, Returned(h, "success", <<"Successfully connected to cluster: ">> \o name))
    /\ audit' = Logged(b, "connect_cluster", name, name,
                       <<"Connected to cluster ">> \o name \o <<" at ">> \o endpoint,
                       "success", stdout)

\* One `kubectl config ...` step of validate_cluster_connection: started
\* with check=True and no timeout.  The command edits the kubeconfig and
\* contacts no cluster; `edited` is the kubeconfig it leaves when it exits
\* 0, `next` the step that follows.
ConfigStep(b, o, step, verb, args, edited, next) ==
    LET h == handler[b]
        ran == Ran(h, Proc(KUBECTL, verb, args, NoManifest, 0, <<>>, <<>>, NoTimeout, o))
    IN
    /\ version \in {2, 4}
    /\ h.pc = step
    /\ IF kubectlAt # "path"
       THEN /\ H2Set(b, Returned(h, "raised", <<"FileNotFoundError">>))
            /\ UNCHANGED <<kubeconfig, audit, session>>
       ELSE IF o.hang
       THEN /\ H2Set(b, Blocked(ran))
            /\ UNCHANGED <<kubeconfig, audit, session>>
       ELSE IF o.rc # 0
       THEN /\ ConnectFailed(b, ran, o.err)
            /\ UNCHANGED kubeconfig
       ELSE /\ kubeconfig' = edited
            /\ H2Set(b, [ran EXCEPT !.pc = next])
            /\ UNCHANGED <<audit, session>>
    /\ UNCHANGED <<version, nreq, v1vars, login, users>>

SetCluster(b, o) ==
    LET name == Strip(handler[b].form.cluster_name)
        endpoint == Strip(handler[b].form.endpoint)
    IN  ConfigStep(b, o, "set_cluster", "config set-cluster", <<name, endpoint>>,
                   [kubeconfig EXCEPT !.clusters = Put(@, name, endpoint)],
                   "set_credentials")

SetCredentials(b, o) ==
    LET name == Strip(handler[b].form.cluster_name)
        token == Strip(handler[b].form.token)
    IN  ConfigStep(b, o, "set_credentials", "config set-credentials",
                   <<UserOf(name), token>>,
                   [kubeconfig EXCEPT !.users = Put(@, UserOf(name), token)],
                   "set_context")

SetContext(b, o) ==
    LET name == Strip(handler[b].form.cluster_name) IN
    ConfigStep(b, o, "set_context", "config set-context", <<name>>,
               [kubeconfig EXCEPT
                  !.contexts = Put(@, name, [cluster |-> name, user |-> UserOf(name)])],
               "use_context")

UseContext(b, o) ==
    LET name == Strip(handler[b].form.cluster_name) IN
    ConfigStep(b, o, "use_context", "config use-context", <<name>>,
               [kubeconfig EXCEPT !.current = name],
               "get_nodes")

\* The last step, `kubectl get nodes`, and the rest of connect_cluster.
GetNodes(b, o) ==
    LET h == handler[b]
        ran == Ran(h, V2Kubectl(KUBECTL, "get nodes", <<>>, NoManifest, NoTimeout, o))
    IN
    /\ version \in {2, 4}
    /\ h.pc = "get_nodes"
    /\ IF kubectlAt # "path"
       THEN /\ H2Set(b, Returned(h, "raised", <<"FileNotFoundError">>))
            /\ UNCHANGED <<audit, session>>
       ELSE IF o.hang
       THEN /\ H2Set(b, Blocked(ran))
            /\ UNCHANGED <<audit, session>>
       ELSE IF o.rc # 0
       THEN ConnectFailed(b, ran, o.err)
       ELSE ConnectSucceeded(b, ran, o.out)
    /\ UNCHANGED <<version, nreq, v1vars, kubeconfig, login, users>>

SessionKeys == {"cluster_connected", "cluster_endpoint", "cluster_name", "cluster_token"}

DisconnectCluster(b) ==
    LET h == Started("disconnect_cluster")
        name == SessionCluster(b)
    IN
    /\ version \in {2, 4}
    /\ handler[b].pc = "idle"
    /\ nreq < MaxRequests
    /\ nreq' = nreq + 1
    /\ IF LoginRequired(b)
       THEN /\ H2Set(b, Returned(h, "login", <<>>))
            /\ UNCHANGED <<session, audit>>
       ELSE /\ audit' = Logged(b, "disconnect_cluster", name, name,
                               <<"Disconnected from cluster ">> \o name,
                               "success", <<"Cluster disconnected">>)
            /\ session' = [session EXCEPT ![b] = PopAll(@, SessionKeys)]
            /\ H2Set(b, Returned(h, "info", <<"Disconnected from cluster">>))
    /\ UNCHANGED <<version, v1vars, kubeconfig, login, users>>

----------------------------------------------------------------------------
(* version2 and version4: the action handlers *)

\* Refused without the session check
RefusedOnlyLogin(b, h) ==
    IF LoginRequired(b) THEN Returned(h, "login", <<>>) ELSE IdleHandler

\* An action handler's first lines: login_required, then the session check.
\* Yields the handler record to return with, or IdleHandler to go on.
Refused(b, h) ==
    IF LoginRequired(b)
    THEN Returned(h, "login", <<>>)
    ELSE IF ~Connected(b)
    THEN Returned(h, "error", <<"Please connect to a cluster first">>)
    ELSE IdleHandler

\* One request handled from start to end by browser b's worker.
Handles(b) ==
    /\ version \in {2, 4}
    /\ handler[b].pc = "idle"
    /\ nreq < MaxRequests
    /\ nreq' = nreq + 1

SetLastOutput(b, text) ==
    session' = [session EXCEPT ![b] = Put(@, "last_output", text)]

generate_deployment_manifest(name, image, replicas, port, namespace) ==
    [kind |-> "Deployment", name |-> name, namespace |-> namespace, image |-> image,
     replicas |-> ParseInt(replicas).val, containerPort |-> ParseInt(port).val]

generate_service_manifest(name, port, target_port, service_type, namespace) ==
    [kind |-> "Service", name |-> name, namespace |-> namespace,
     port |-> ParseInt(port).val, targetPort |-> ParseInt(target_port).val,
     type |-> service_type]

\* str(e) of the ValueError int() raises
ValueErrorText(text) == <<"invalid literal for int() with base 10: ">> \o text

\* The first of the texts that int() rejects, in evaluation order
FirstBad(texts) ==
    LET bad == { i \in 1..Len(texts) : ~ParseInt(texts[i]).ok } IN
    texts[CHOOSE i \in bad : \A j \in bad : i <= j]

DeploymentForms(b) ==
  Only(b,
    { [deployment_name |-> <<"a">>, deployment_image |-> <<"i">>] }
    \cup { [deployment_name |-> <<"a">>, deployment_image |-> <<"i">>,
            deployment_replicas |-> r] : r \in ReplicaInputs }
    \cup { [deployment_name |-> <<" ">>, deployment_image |-> <<"i">>] },
    { [deployment_name |-> <<"a">>, deployment_image |-> <<"i">>] })

ServiceForms(b) ==
  Only(b,
    { [service_name |-> <<"a">>],
      [service_name |-> <<"a">>, service_port |-> <<"8", "1">>],
      [service_name |-> <<"a">>, service_port |-> <<"8", "1">>,
       service_target_port |-> <<"9">>],
      [service_name |-> <<"a">>, service_port |-> <<"x">>],
      [service_port |-> <<"8", "1">>] },
    {})

\* The tail shared by create_deployment and create_service: Popen of
\* `kubectl apply -f -`, communicate() without a timeout, then the branch
\* on the return code; `log` says whether the handler writes audit rows.
ApplyManifest(b, h, o, manifest, log, what, name, created, failed) ==
    LET ran == Ran(h, V2Kubectl(KUBECTL, "apply", <<>>, manifest, NoTimeout, o))
        row(status, output) ==
            IF log
            THEN Logged(b, h.route, name, SessionCluster(b),
                        <<"kubectl apply ">> \o what \o name, status, output)
            ELSE audit
    IN
    IF kubectlAt # "path"
    THEN /\ H2Set(b, Returned(h, "error", <<"FileNotFoundError">>))
         /\ audit' = row("failed", <<"FileNotFoundError">>)
         /\ SetLastOutput(b, <<"FileNotFoundError">>)
    ELSE IF o.hang
    THEN /\ H2Set(b, Blocked(ran))
         /\ UNCHANGED <<audit, session>>
    ELSE IF o.rc = 0
    THEN /\ H2Set(b, Returned(ran, "success", created))
         /\ audit' = row("success", o.out)
         /\ SetLastOutput(b, o.out)
    ELSE /\ H2Set(b, Returned(ran, "error", failed \o o.err))
         /\ audit' = row("failed", o.err)
         /\ SetLastOutput(b, o.err)

CreateDeployment(b, form, o) ==
    LET h == [Started("create_deployment") EXCEPT !.form = form]
        name == Strip(FormGet(form, "deployment_name", <<>>))
        image == Strip(FormGet(form, "deployment_image", <<>>))
        replicas == FormGet(form, "deployment_replicas", <<"1">>)
        port == FormGet(form, "deployment_port", <<"8", "0">>)
        namespace == Strip(FormGet(form, "deployment_namespace", <<"default">>))
        error == ValueErrorText(FirstBad(<<replicas, port>>))
    IN
    /\ Handles(b)
    /\ IF Refused(b, h) # IdleHandler
       THEN /\ H2Set(b, Refused(b, h))
            /\ UNCHANGED <<session, audit>>
       ELSE IF name = <<>> \/ image = <<>>
       THEN /\ H2Set(b, Returned(h, "error", <<"Deployment name and image are required">>))
            /\ UNCHANGED <<session, audit>>
       ELSE IF ~ParseInt(replicas).ok \/ ~ParseInt(port).ok
       THEN /\ H2Set(b, Returned(h, "error", <<"Error creating deployment: ">> \o error))
            /\ audit' = Logged(b, h.route, name, SessionCluster(b),
                               <<"kubectl apply deployment ">> \o name, "failed", error)
            /\ SetLastOutput(b, error)
       ELSE ApplyManifest(b, h, o,
                          generate_deployment_manifest(name, image, replicas, port, namespace),
                          TRUE, <<"deployment ">>, name,
                          <<"Deployment ">> \o name \o <<" created successfully">>,
                          <<"Failed to create deployment: ">>)
    /\ UNCHANGED <<version, v1vars, kubeconfig, login, users>>

CreateService(b, form, o) ==
    LET h == [Started("create_service") EXCEPT !.form = form]
        name == Strip(FormGet(form, "service_name", <<>>))
        port == FormGet(form, "service_port", <<"8", "0">>)
        target_port == FormGet(form, "service_target_port", <<"8", "0">>)
        service_type == FormGet(form, "service_type", <<"ClusterIP">>)
        namespace == Strip(FormGet(form, "service_namespace", <<"default">>))
        error == ValueErrorText(FirstBad(<<port, target_port>>))
    IN
    /\ Handles(b)
    /\ IF Refused(b, h) # IdleHandler
       THEN /\ H2Set(b, Refused(b, h))
            /\ UNCHANGED <<session, audit>>
       ELSE IF name = <<>>
       THEN /\ H2Set(b, Returned(h, "error", <<"Service name is required">>))
            /\ UNCHANGED <<session, audit>>
       ELSE IF ~ParseInt(port).ok \/ ~ParseInt(target_port).ok
       THEN /\ H2Set(b, Returned(h, "error", <<"Error creating service: ">> \o error))
            /\ SetLastOutput(b, error)
            /\ UNCHANGED audit
       ELSE ApplyManifest(b, h, o,
                          generate_service_manifest(name, port, target_port,
                                                    service_type, namespace),
                          FALSE, <<"service ">>, name,
                          <<"Service ">> \o name \o <<" created successfully">>,
                          <<"Failed to create service: ">>)
    /\ UNCHANGED <<version, v1vars, kubeconfig, login, users>>

\* execute_kubectl_command: subprocess.run with check=True and timeout=30;
\* a child that outlives the timeout is killed and reported as timed out.
execute_kubectl_command(o) ==
    IF o.hang
    THEN [success |-> FALSE, output |-> <<"Command timed out after 30 seconds">>]
    ELSE IF o.rc # 0
    THEN [success |-> FALSE, output |-> o.err]
    ELSE [success |-> TRUE, output |-> o.out]

CustomCommands(b) ==
  Only(b,
    { KUBECTL \o <<" ", "g">>,
      KUBECTL,
      KUBECTL \o <<"x", " ", "g">>,
      <<" ">> \o KUBECTL \o <<" ", " ", "g", " ">>,
      KUBECTL \o <<"\t", "g">>,
      <<"s", "h", " ", "-", "c">>,
      <<" ">>,
      KUBECTL \o <<" ", "g", " ", "--token=", TokenOf(b)>> },
    {})

\* AllowedCommand without the space that ends the first word
AllowedCommandNoSpace(command) == StartsWith(command, KUBECTL)

\* The guard of execute_custom: the command must begin with "kubectl "
AllowedCommand(command) == StartsWith(command, KUBECTL \o <<" ">>)

ExecuteCustom(b, text, o) ==
    LET h == [Started("execute_custom") EXCEPT !.form = [custom_command |-> text]]
        command == Strip(text)
        cmd_args == Split(command)
        ran == Ran(h, V2Kubectl(Head(cmd_args), "custom", Tail(cmd_args), NoManifest,
                                KubectlTimeout, o))
        res == execute_kubectl_command(o)
        log(status, output) ==
            Logged(b, h.route, <<"custom_kubectl">>, SessionCluster(b), command,
                   status, output)
    IN
    /\ Handles(b)
    /\ IF Refused(b, h) # IdleHandler
       THEN /\ H2Set(b, Refused(b, h))
            /\ UNCHANGED <<session, audit>>
       ELSE IF command = <<>>
       THEN /\ H2Set(b, Returned(h, "error", <<"Custom command is required">>))
            /\ UNCHANGED <<session, audit>>
       ELSE IF ~AllowedCommand(command)
       THEN /\ H2Set(b, Returned(h, "error", <<"Only kubectl commands are allowed">>))
            /\ UNCHANGED <<session, audit>>
       ELSE IF kubectlAt # "path"
       THEN /\ H2Set(b, Returned(h, "error", <<"FileNotFoundError">>))
            /\ audit' = log("failed", <<"FileNotFoundError">>)
            /\ SetLastOutput(b, <<"FileNotFoundError">>)
       ELSE IF res.success
       THEN /\ H2Set(b, Returned(ran, "success", <<"Custom command executed successfully">>))
            /\ audit' = log("success", res.output)
            /\ SetLastOutput(b, res.output)
       ELSE /\ H2Set(b, Returned(ran, "error", <<"Command failed: ">> \o res.output))
            /\ audit' = log("failed", res.output)
            /\ SetLastOutput(b, res.output)
    /\ UNCHANGED <<version, v1vars, kubeconfig, login, users>>

YamlForms(b) ==
  Only(b,
    { [custom_yaml |-> <<"y">>],
      [custom_yaml |-> <<"y">>, yaml_namespace |-> <<"n">>],
      [custom_yaml |-> <<" ">>] },
    {})

ExecuteYaml(b, form, o) ==
    LET h == [Started("execute_yaml") EXCEPT !.form = form]
        yaml_content == Strip(FormGet(form, "custom_yaml", <<>>))
        namespace_override == Strip(FormGet(form, "yaml_namespace", <<>>))
        cmd == IF namespace_override # <<>> THEN <<<<"-n">>, namespace_override>> ELSE <<>>
        ran == Ran(h, V2Kubectl(KUBECTL, "apply", cmd,
                                [kind |-> "Raw", text |-> yaml_content], YamlTimeout, o))
        log(status, output) ==
            Logged(b, h.route, <<"custom_yaml">>, SessionCluster(b),
                   <<"kubectl apply -f -">>, status, output)
    IN
    /\ Handles(b)
    /\ IF Refused(b, h) # IdleHandler
       THEN /\ H2Set(b, Refused(b, h))
            /\ UNCHANGED <<session, audit>>
       ELSE IF yaml_content = <<>>
       THEN /\ H2Set(b, Returned(h, "error", <<"YAML content is required">>))
            /\ UNCHANGED <<session, audit>>
       ELSE IF kubectlAt # "path"
       THEN /\ H2Set(b, Returned(h, "error", <<"FileNotFoundError">>))
            /\ audit' = log("failed", <<"FileNotFoundError">>)
            /\ SetLastOutput(b, <<"FileNotFoundError">>)
       ELSE IF o.hang
       THEN /\ H2Set(b, Returned(ran, "error",
                                 <<"YAML application timed out after 60 seconds">>))
            /\ audit' = log("failed", <<"Command timed out">>)
            /\ SetLastOutput(b, <<"Command timed out">>)
       ELSE IF o.rc = 0
       THEN /\ H2Set(b, Returned(ran, "success", <<"YAML manifest applied successfully">>))
            /\ audit' = log("success", o.out)
            /\ SetLastOutput(b, o.out)
       ELSE /\ H2Set(b, Returned(ran, "error", <<"Failed to apply YAML manifest: ">> \o o.err))
            /\ audit' = log("failed", o.err)
            /\ SetLastOutput(b, o.err)
    /\ UNCHANGED <<version, v1vars, kubeconfig, login, users>>

ResourceForms(b) == Only(b, { <<>>, [resource_type |-> <<"svc">>] }, {})

\* get_resources: no login_required in either version, a JSON response.
GetResources(b, form, o) ==
    LET h == [Started("get_resources") EXCEPT !.form = form]
        resource_type == FormGet(form, "resource_type", <<"pods">>)
        namespace == FormGet(form, "namespace", <<"default">>)
        ran == Ran(h, V2Kubectl(KUBECTL, "get", <<resource_type, <<"-n">>, namespace>>,
                                NoManifest, KubectlTimeout, o))
        res == execute_kubectl_command(o)
    IN
    /\ Handles(b)
    /\ IF ~Connected(b)
       THEN H2Set(b, Returned(h, "error", <<"Not connected to cluster">>))
       ELSE IF kubectlAt # "path"
       THEN H2Set(b, Returned(h, "error", <<"FileNotFoundError">>))
       ELSE IF res.success
       THEN H2Set(b, Returned(ran, "success", res.output))
       ELSE H2Set(b, Returned(ran, "error", res.output))
    /\ UNCHANGED <<version, v1vars, session, kubeconfig, audit, login, users>>

----------------------------------------------------------------------------
(* version4: login and logout *)

AccountOf(b) == IF b = "b1" THEN "u1" ELSE "u2"

\* The audit_logs table takes a row only with a user: user_id is declared
\* nullable=False, and the commit of any other row raises IntegrityError.
AuditLogAccepts(row) == row.user_id # None

\* login (POST): a matching password logs the user in and audits it; any
\* other attempt adds a login_failed row with no user and commits it, and
\* what the table refuses leaves the handler as an exception.
Login(b, ok) ==
    LET h == Started("login")
        failed == [user_id |-> None, action |-> "login_failed",
                   resource_name |-> <<"user_session">>, cluster_name |-> <<"system">>,
                   command |-> <<"Failed login attempt for username: ", AccountOf(b)>>,
                   status |-> "failed", output |-> <<"Invalid username or password">>]
    IN
    /\ V4
    /\ handler[b].pc = "idle"
    /\ nreq < MaxRequests
    /\ nreq' = nreq + 1
    /\ IF ok /\ AccountOf(b) \in DOMAIN users
       THEN /\ login' = [login EXCEPT ![b] = AccountOf(b)]
            /\ audit' = Append(audit,
                   [user_id |-> AccountOf(b), action |-> "login",
                    resource_name |-> <<"user_session">>, cluster_name |-> <<"system">>,
                    command |-> <<"User ", AccountOf(b), " logged in">>,
                    status |-> "success", output |-> <<"Login successful">>])
            /\ H2Set(b, Returned(h, "success", <<"Welcome back, ", AccountOf(b)>>))
       ELSE /\ IF AuditLogAccepts(failed)
               THEN /\ audit' = Append(audit, failed)
                    /\ H2Set(b, Returned(h, "error", <<"Invalid username or password">>))
               ELSE /\ H2Set(b, Returned(h, "raised", <<"IntegrityError">>))
                    /\ UNCHANGED audit
            /\ UNCHANGED login
    /\ UNCHANGED <<version, v1vars, session, kubeconfig, users>>

\* logout: audits, then logout_user(); the keys of the session that hold
\* the connection are left as they are.  It starts nothing and nreq does
\* not count it.
Logout(b) ==
    LET h == Started("logout") IN
    /\ V4
    /\ handler[b].pc = "idle"
    /\ UNCHANGED nreq
    /\ IF login[b] = None
       THEN /\ H2Set(b, Returned(h, "login", <<>>))
            /\ UNCHANGED <<audit, login>>
       ELSE /\ audit' = Logged(b, "logout", <<"user_session">>, <<"system">>,
                               <<"User ", login[b], " logged out">>,
                               "success", <<"Logout successful">>)
            /\ login' = [login EXCEPT ![b] = None]
            /\ H2Set(b, Returned(h, "info", <<"You have been logged out">>))
    /\ UNCHANGED <<version, v1vars, session, kubeconfig, users>>

----------------------------------------------------------------------------
(* version4: accounts and the audit dashboard *)

\* The users table when the web application starts: an administrator made
\* with setup_admin.py and an ordinary account.
StartUsers ==
    [u1 |-> [is_admin |-> TRUE, email |-> "e1"],
     u2 |-> [is_admin |-> FALSE, email |-> "e2"]]

\* The forms a browser submits to /register: a taken username, a taken
\* email address, and a new account; the second browser asks for the same
\* new account.
RegisterForms(b) ==
    Only(b, { [username |-> AccountOf(b), email |-> "e3"],
              [username |-> "u3", email |-> "e1"],
              [username |-> "u3", email |-> "e3"] },
            { [username |-> "u3", email |-> "e3"] })

\* NewUser with the administrator flag set
NewUserAdmin(username, email) == [is_admin |-> TRUE, email |-> email]

\* The row register() adds for a new account
NewUser(username, email) == [is_admin |-> FALSE, email |-> email]

\* User.query.filter_by(email=email).first() finds a row
EmailTaken(email) == \E u \in DOMAIN users : users[u].email = email

\* register (POST), first half: the two queries.  A taken username or
\* email is refused with a message; otherwise the handler goes on to the
\* insert.  No login is needed.
Register(b, form) ==
    LET h == [Started("register") EXCEPT !.form = form] IN
    /\ V4
    /\ handler[b].pc = "idle"
    /\ nreq < MaxRequests
    /\ nreq' = nreq + 1
    /\ IF form.username \in DOMAIN users
       THEN H2Set(b, Returned(h, "error", <<"Username already exists">>))
       ELSE IF EmailTaken(form.email)
       THEN H2Set(b, Returned(h, "error", <<"Email already registered">>))
       ELSE H2Set(b, [h EXCEPT !.pc = "insert"])
    /\ UNCHANGED <<version, v1vars, session, kubeconfig, audit, login, users>>

\* register, second half: the commit of the new row, which the unique
\* columns username and email refuse with IntegrityError when another
\* request has added the account meanwhile; then the audit row.
RegisterInsert(b) ==
    LET h == handler[b]
        username == h.form.username
        email == h.form.email
    IN
    /\ V4
    /\ h.pc = "insert"
    /\ IF username \in DOMAIN users \/ EmailTaken(email)
       THEN /\ H2Set(b, Returned(h, "raised", <<"IntegrityError">>))
            /\ UNCHANGED <<users, audit>>
       ELSE /\ users' = Put(users, username, NewUser(username, email))
            /\ audit' = Append(audit,
                   [user_id |-> username, action |-> "register",
                    resource_name |-> <<"user_account">>, cluster_name |-> <<"system">>,
                    command |-> <<"User ", username, " registered">>,
                    status |-> "success",
                    output |-> <<"User account created successfully">>])
            /\ H2Set(b, Returned(h, "success", <<"Registration successful! Please login.">>))
    /\ UNCHANGED <<version, nreq, v1vars, session, kubeconfig, login>>

\* audit_dashboard: login_required, then the is_admin test; only then are
\* the audit rows and statistics rendered.
AuditDashboard(b) ==
    LET h == Started("audit_dashboard") IN
    /\ V4
    /\ handler[b].pc = "idle"
    /\ nreq < MaxRequests
    /\ nreq' = nreq + 1
    /\ IF LoginRequired(b)
       THEN H2Set(b, Returned(h, "login", <<>>))
       ELSE IF ~users[login[b]].is_admin
       THEN H2Set(b, Returned(h, "error", <<"Access denied. Admin privileges required.">>))
       ELSE H2Set(b, Returned(h, "shown", <<"audit.html">>))
    /\ UNCHANGED <<version, v1vars, session, kubeconfig, audit, login, users>>

----------------------------------------------------------------------------
(* The system *)

Init ==
    /\ version \in {1, 2, 4}
    /\ nreq = 0
    /\ req = [w \in Workers |-> IdleReq]
    /\ fs = [p \in Paths |-> NoFile]
    /\ kubectlAt \in {"path", "none"}
    /\ scriptOk \in IF version = 1 /\ kubectlAt # "path" THEN BOOLEAN ELSE {FALSE}
    /\ environ = StartEnviron
    /\ session = [b \in Browsers |-> <<>>]
    /\ handler = [b \in Browsers |-> IdleHandler]
    /\ kubeconfig = EmptyKubeconfig
    /\ audit = <<>>
    /\ login = [b \in Browsers |-> None]
    /\ users = StartUsers

V2Next ==
    \/ \E b \in Browsers : \E form \in ConnectForms(b) : ConnectCluster(b, form)
    \/ \E b \in Browsers, o \in Outcomes : SetCluster(b, o)
    \/ \E b \in Browsers, o \in Outcomes : SetCredentials(b, o)
    \/ \E b \in Browsers, o \in Outcomes : SetContext(b, o)
    \/ \E b \in Browsers, o \in Outcomes : UseContext(b, o)
    \/ \E b \in Browsers, o \in Outcomes : GetNodes(b, o)
    \/ \E b \in Browsers : DisconnectCluster(b)
    \/ \E b \in Browsers, o \in Outcomes : \E form \in DeploymentForms(b) :
          CreateDeployment(b, form, o)
    \/ \E b \in Browsers, o \in Outcomes : \E form \in ServiceForms(b) :
          CreateService(b, form, o)
    \/ \E b \in Browsers, o \in Outcomes : \E c \in CustomCommands(b) : ExecuteCustom(b, c, o)
    \/ \E b \in Browsers, o \in Outcomes : \E form \in YamlForms(b) :
          ExecuteYaml(b, form, o)
    \/ \E b \in Browsers, o \in Outcomes : \E form \in ResourceForms(b) :
          GetResources(b, form, o)
    \/ \E b \in Browsers, ok \in BOOLEAN : Login(b, ok)
    \/ \E b \in Browsers : Logout(b)
    \/ \E b \in Browsers : \E form \in RegisterForms(b) : Register(b, form)
    \/ \E b \in Browsers : RegisterInsert(b)
    \/ \E b \in Browsers : AuditDashboard(b)

Next == V1Next \/ V2Next

Spec == Init /\ [][Next]_vars

----------------------------------------------------------------------------
(* Properties *)

Last(seq) == seq[Len(seq)]

V1Returned(w) == version = 1 /\ req[w].pc = "done"

\* The kubectl children of a request or handler record
KubectlProcs(procs) == { i \in 1..Len(procs) : procs[i].argv0 = KUBECTL }

Exited(p) == ~p.exit.hang

\* C1: in version1, when a handler has returned, no temporary kubeconfig
\* made by that worker's request is left in the temporary directory, on any
\* exit path.
C1_KubeconfigRemovedOnReturn ==
    \A w \in Workers :
        V1Returned(w) => \A p \in Paths : ~(fs[p].exists /\ fs[p].by = w)

\* The probe of a version1 request exited non-zero.
V1ProbeFailed(w, i) ==
    /\ version = 1
    /\ i \in 1..Len(req[w].procs)
    /\ req[w].procs[i].verb = "get ns"
    /\ Exited(req[w].procs[i])
    /\ req[w].procs[i].exit.rc # 0

\* C2 as stated: when the probe `kubectl get ns` exits non-zero, no apply is
\* started in that call and the call fails with the probe's stderr as its
\* error text.
C2_ProbeFailureSurfacesStderr ==
    \A w \in Workers : \A i \in 1..Len(req[w].procs) :
        V1ProbeFailed(w, i) =>
            /\ i = Len(req[w].procs)
            /\ req[w].result.ok = FALSE
            /\ req[w].result.stderr = req[w].procs[i].exit.err

\* C2 amended: when the probe `kubectl get ns` exits non-zero, no apply is
\* started in that call and the call fails; its error text is the probe's
\* stderr when that is not empty and "Connectivity check failed" when it is.
C2_ProbeFailureSurfacesStderrOrFallback ==
    \A w \in Workers : \A i \in 1..Len(req[w].procs) :
        V1ProbeFailed(w, i) =>
            /\ i = Len(req[w].procs)
            /\ req[w].result.ok = FALSE
            /\ req[w].result.stderr =
                 IF req[w].procs[i].exit.err = <<>>
                 THEN <<"Connectivity check failed">>
                 ELSE req[w].procs[i].exit.err

\* A request has returned after a probe that failed without writing to stderr.
C2_Witness ==
    \E w \in Workers :
        /\ V1Returned(w)
        /\ V1ProbeFailed(w, Len(req[w].procs))
        /\ Last(req[w].procs).exit.err = <<>>

FirstToken(text) == IF Split(text) = <<>> THEN <<>> ELSE Head(Split(text))

Custom(b) == version \in {2, 4} /\ handler[b].route = "execute_custom"

\* C3: a custom command whose first whitespace-separated token is not
\* exactly `kubectl` is rejected with no process started, and every process
\* execute_custom starts has argv[0] equal to `kubectl`.
C3_OnlyKubectlIsExecuted ==
    \A b \in Browsers :
        Custom(b) =>
            /\ FirstToken(handler[b].form.custom_command) # KUBECTL
                   => /\ handler[b].procs = <<>>
                      /\ handler[b].status \in {"error", "login"}
            /\ \A i \in 1..Len(handler[b].procs) : handler[b].procs[i].argv0 = KUBECTL

\* A connected session had a command other than kubectl turned away.
C3_Witness ==
    \E b \in Browsers :
        /\ Custom(b)
        /\ Connected(b)
        /\ FirstToken(handler[b].form.custom_command)
             \notin { <<>>, KUBECTL }
        /\ handler[b].flash = <<"Only kubectl commands are allowed">>

\* The children that act on a cluster for an action request
ActionVerbs == {"apply", "custom", "get"}

\* C4: every kubectl process an action request of version2/4 starts runs
\* against the endpoint and with the token stored in the issuing session.
C4_ActionsUseOwnSessionCluster ==
    \A b \in Browsers : \A i \in 1..Len(handler[b].procs) :
        (version \in {2, 4} /\ handler[b].procs[i].verb \in ActionVerbs) =>
            /\ handler[b].procs[i].server = SessionGet(b, "cluster_endpoint", <<>>)
            /\ handler[b].procs[i].token = SessionGet(b, "cluster_token", <<>>)

\* A handler waits for ever on a kubectl child that never exits.
WaitsForEver(rec) ==
    rec.pc = "blocked" /\ Last(rec.procs).argv0 = KUBECTL /\ Last(rec.procs).exit.hang

\* C5: every kubectl child runs under a timeout of 30 or 60 seconds, and no
\* handler waits for ever on a kubectl child that never exits.
C5_EveryChildHasTimeout ==
    /\ \A w \in Workers :
         /\ ~WaitsForEver(req[w])
         /\ \A i \in KubectlProcs(req[w].procs) :
              req[w].procs[i].timeout \in {KubectlTimeout, YamlTimeout}
    /\ \A b \in Browsers :
         /\ ~WaitsForEver(handler[b])
         /\ \A i \in KubectlProcs(handler[b].procs) :
              handler[b].procs[i].timeout \in {KubectlTimeout, YamlTimeout}

\* C6: no field of any audit row holds a bearer token.
C6_AuditHoldsNoToken ==
    \A i \in 1..Len(audit) : \A t \in Tokens :
        /\ ~Contains(audit[i].command, t)
        /\ ~Contains(audit[i].output, t)
        /\ ~Contains(audit[i].resource_name, t)
        /\ ~Contains(audit[i].cluster_name, t)

NoRequestRunning ==
    /\ \A w \in Workers : req[w].pc \in {"idle", "done"}
    /\ \A b \in Browsers : handler[b].pc = "idle"

\* C7: once the handlers have returned, no bearer token is kept in a session,
\* in a temporary kubeconfig or in the default kubeconfig.
C7_TokenDoesNotOutliveRequest ==
    NoRequestRunning =>
        /\ \A b \in Browsers : "cluster_token" \notin DOMAIN session[b]
        /\ \A p \in Paths : fs[p].token = <<>>
        /\ DOMAIN kubeconfig.users = {}

\* The integer a manifest gives for a field: version1 renders the text of
\* the form field, version2/4 the value of int().
Rendered(value) == IF version = 1 THEN ParseInt(value).val ELSE value

\* The manifests of kind `kind` written to a kubectl child's stdin
Applied(procs, kind) ==
    { procs[i].stdin : i \in { j \in 1..Len(procs) : procs[j].stdin.kind = kind } }

\* C8 for one deployment request: replicas is the text submitted, procs the
\* children started, failed whether the request ended in an error.
DeploymentChecked(replicas, procs, failed) ==
    IF ParseInt(replicas).ok
    THEN \A m \in Applied(procs, "Deployment") :
            Rendered(m.replicas) = ParseInt(replicas).val
    ELSE KubectlProcs(procs) = {} /\ failed

\* C8: in every deployment handler a numeric replica input is rendered as
\* that integer, and a non-numeric one ends the request in an error with no
\* kubectl process started.
C8_ReplicasParsedOrRejected ==
    /\ \A w \in Workers :
         (V1Returned(w) /\ req[w].handler = "deploy" /\ req[w].result.code # 400) =>
             DeploymentChecked(FormGet(req[w].form, "replicas", <<"1">>),
                               req[w].procs, ~req[w].result.ok)
    /\ \A b \in Browsers :
         (version \in {2, 4} /\ handler[b].route = "create_deployment"
            /\ handler[b].pc = "idle") =>
             DeploymentChecked(FormGet(handler[b].form, "deployment_replicas", <<"1">>),
                               handler[b].procs, handler[b].status # "success")

\* C9: no Deployment manifest with a negative replica count reaches a
\* kubectl process.
C9_NoNegativeReplicasApplied ==
    /\ \A w \in Workers : \A m \in Applied(req[w].procs, "Deployment") :
         ~(ParseInt(m.replicas).ok /\ ParseInt(m.replicas).val < 0)
    /\ \A b \in Browsers : \A m \in Applied(handler[b].procs, "Deployment") :
         m.replicas >= 0

\* C10: a service request that gives a port and no targetPort renders a
\* manifest whose targetPort is that port.
C10_TargetPortDefaultsToPort ==
    /\ \A w \in Workers :
         (version = 1 /\ req[w].handler = "service"
            /\ "port" \in DOMAIN req[w].form /\ "targetPort" \notin DOMAIN req[w].form
            /\ req[w].yaml_text.kind = "Service") =>
             req[w].yaml_text.targetPort = Strip(req[w].form.port)
    /\ \A b \in Browsers :
         (version \in {2, 4} /\ handler[b].route = "create_service"
            /\ "service_port" \in DOMAIN handler[b].form
            /\ "service_target_port" \notin DOMAIN handler[b].form) =>
             \A m \in Applied(handler[b].procs, "Service") :
                 m.targetPort = ParseInt(handler[b].form.service_port).val

\* The raw manifest text of a request is empty once stripped.
EmptyYaml(form, key) == Strip(FormGet(form, key, <<>>)) = <<>>

\* C11: a raw-manifest request whose YAML text is empty or only whitespace
\* is rejected with no process started: no install script, no probe, no
\* apply, and in version1 no kubeconfig file.
C11_EmptyYamlRejectedBeforeSpawn ==
    /\ \A w \in Workers :
         (version = 1 /\ req[w].handler = "custom" /\ EmptyYaml(req[w].form, "yaml")) =>
             /\ req[w].pc = "done"
             /\ req[w].result.code = 400
             /\ req[w].procs = <<>>
             /\ req[w].path = 0
    /\ \A b \in Browsers :
         (version \in {2, 4} /\ handler[b].route = "execute_yaml"
            /\ EmptyYaml(handler[b].form, "custom_yaml")) =>
             /\ handler[b].pc = "idle"
             /\ handler[b].status \in {"error", "login"}
             /\ handler[b].procs = <<>>

\* A whitespace-only manifest was turned away by /custom while kubectl was
\* missing and the install script was ready to run.
C11_Witness ==
    \E w \in Workers :
        /\ version = 1
        /\ req[w].handler = "custom"
        /\ FormGet(req[w].form, "yaml", <<>>) # <<>>
        /\ EmptyYaml(req[w].form, "yaml")
        /\ req[w].result.code = 400
        /\ kubectlAt = "none"
        /\ scriptOk

\* The routes of version2/4 whose last child is their primary kubectl command
PrimaryRoutes ==
    {"connect_cluster", "create_deployment", "create_service", "execute_custom",
     "execute_yaml", "get_resources"}

PrimaryVerbs == {"get nodes", "apply", "custom", "get"}

\* The child exited with return code 0.
ExitedZero(p) == Exited(p) /\ p.exit.rc = 0

\* C12: whenever the primary kubectl process was started and the call has
\* returned, the outcome reported is success exactly when that process
\* exited with code 0.
C12_SuccessIffExitCodeZero ==
    /\ \A w \in Workers :
         (version = 1 /\ req[w].pc \in {"finally", "done"} /\ req[w].procs # <<>>
            /\ Last(req[w].procs).verb \in {"apply", "delete"}) =>
             (req[w].result.ok <=> ExitedZero(Last(req[w].procs)))
    /\ \A b \in Browsers :
         (version \in {2, 4} /\ handler[b].pc = "idle"
            /\ handler[b].route \in PrimaryRoutes /\ handler[b].procs # <<>>
            /\ Last(handler[b].procs).verb \in PrimaryVerbs) =>
             (handler[b].status = "success" <=> ExitedZero(Last(handler[b].procs)))

\* A version1 request has returned after its apply exited with a non-zero code.
C12_Witness ==
    \E w \in Workers :
        /\ V1Returned(w)
        /\ req[w].procs # <<>>
        /\ Last(req[w].procs).verb = "apply"
        /\ Exited(Last(req[w].procs))
        /\ Last(req[w].procs).exit.rc # 0
        /\ ~req[w].result.ok

\* The runs of the install script among the children of a request
InstallProcs(procs) == { i \in 1..Len(procs) : procs[i].verb = "install" }

\* The request ended in a failure with no kubeconfig made and no kubectl run.
V1FailedAtOnce(w) ==
    /\ req[w].pc = "done"
    /\ ~req[w].result.ok
    /\ req[w].path = 0
    /\ KubectlProcs(req[w].procs) = {}

\* C13: in version1 the install script runs at most once in a request; when
\* it exits non-zero, or when kubectl is still nowhere after kubectl_path()
\* (script missing, or script run without installing anything), the request
\* fails at once: no kubeconfig file, no probe, apply or delete.
C13_InstallOnceOrFail ==
    \A w \in Workers :
        version = 1 =>
            /\ Cardinality(InstallProcs(req[w].procs)) <= 1
            /\ (\E i \in InstallProcs(req[w].procs) :
                    Exited(req[w].procs[i]) /\ req[w].procs[i].exit.rc # 0)
                   => V1FailedAtOnce(w)
            /\ (req[w].pc \notin {"idle", "kubectl_path", "blocked"}
                   /\ req[w].result.code # 400 /\ kubectlAt = "none")
                   => V1FailedAtOnce(w)

\* The install script ran, exited 0 and left no kubectl: the request failed.
C13_Witness ==
    \E w \in Workers :
        /\ V1Returned(w)
        /\ kubectlAt = "none"
        /\ InstallProcs(req[w].procs) # {}
        /\ ExitedZero(Last(req[w].procs))
        /\ req[w].result.stderr = <<"kubectl not found">>

\* C14: in version1, when the install step left kubectl at /tmp/kubectl
\* only, a request that made its kubeconfig goes on as it would with kubectl
\* on the search path: its probe (or delete) is started with the binary at
\* the fallback location and the request ends with a result page.
C14_FallbackBinaryIsUsed ==
    \A w \in Workers :
        (version = 1 /\ kubectlAt = "tmp" /\ req[w].kc_path # 0
           /\ req[w].pc \in {"finally", "done"}) =>
            /\ KubectlProcs(req[w].procs) # {}
            /\ req[w].result.code = 200

\* The children of a request are its probe followed by its apply.
ProbeThenApply(procs, ks) ==
    \E i, j \in ks : i < j /\ procs[i].verb = "get ns" /\ procs[j].verb = "apply"

\* C15: each action that passed validation and has returned started exactly
\* one kubectl process, or exactly two when a probe precedes an apply (the
\* one run of the install script aside).
C15_OneProcessPerAction ==
    /\ \A w \in Workers :
         (V1Returned(w) /\ KubectlProcs(req[w].procs) # {}) =>
             LET ks == KubectlProcs(req[w].procs) IN
             \/ Cardinality(ks) = 1
             \/ Cardinality(ks) = 2 /\ ProbeThenApply(req[w].procs, ks)
    /\ \A b \in Browsers :
         (version \in {2, 4} /\ handler[b].pc = "idle"
            /\ handler[b].route \in PrimaryRoutes /\ handler[b].procs # <<>>) =>
             Len(handler[b].procs) = 1

\* The positions of a version1 request before its outcome is known
V1Underway == {"kubectl_path", "mkstemp", "write", "probe", "apply", "delete", "blocked"}

\* The positions at which a kubectl child is about to start or may be running
V1UsesFile(r) ==
    \/ r.pc \in {"probe", "apply", "delete"}
    \/ r.pc = "blocked" /\ r.kc_path # 0

\* C16: a version1 request goes validate, credential file, probe, primary
\* action, result, release.  No file is made for a request that failed
\* validation; every apply follows a probe of the same request that exited
\* 0; every kubectl child runs with the request's own file, which exists
\* while children may run and is gone, with all children exited, once a
\* request that ran kubectl has returned; and a request has no outcome
\* while under way and one outcome when done.
C16_RequestOrder ==
    \A w \in Workers :
        LET r == req[w] IN
        version = 1 =>
            /\ (r.path # 0 \/ r.procs # <<>>) => V1Valid(r.handler, r.form)
            /\ \A j \in KubectlProcs(r.procs) :
                  /\ r.procs[j].verb = "apply" =>
                        \E i \in 1..(j - 1) :
                            r.procs[i].verb = "get ns" /\ ExitedZero(r.procs[i])
                  /\ r.kc_path # 0
                  /\ r.procs[j].kubeconfig = r.kc_path
            /\ V1UsesFile(r) =>
                  fs[r.kc_path].exists /\ fs[r.kc_path].written /\ fs[r.kc_path].by = w
            /\ (r.pc = "done" /\ KubectlProcs(r.procs) # {}) =>
                  /\ ~(fs[r.kc_path].exists /\ fs[r.kc_path].by = w)
                  /\ \A i \in 1..Len(r.procs) : Exited(r.procs[i])
            /\ r.pc \in V1Underway => r.result = NoResult
            /\ r.pc = "done" =>
                  /\ r.result.code \in {200, 400, 500}
                  /\ r.result.ok => r.result.code = 200 /\ ExitedZero(Last(r.procs))

\* A request ran its probe and its apply and has returned with its
\* kubeconfig removed.
C16_Witness ==
    \E w \in Workers :
        /\ V1Returned(w)
        /\ Cardinality(KubectlProcs(req[w].procs)) = 2
        /\ req[w].result.ok
        /\ ~fs[req[w].kc_path].exists

\* The request holds a temporary file it has not yet given up.
V1HoldsFile(r) == r.path # 0 /\ r.pc \notin {"idle", "done"}

\* C17: concurrent version1 requests hold pairwise distinct temporary
\* files; every kubectl child reads the server and token its own request
\* wrote; and the file of a request that may still run kubectl, or is about
\* to clean up, is intact: neither removed nor overwritten by another.
C17_KubeconfigsAreSeparate ==
    version = 1 =>
        /\ \A w1, w2 \in Workers :
              (w1 # w2 /\ V1HoldsFile(req[w1]) /\ V1HoldsFile(req[w2])) =>
                  req[w1].path # req[w2].path
        /\ \A w \in Workers :
              LET r == req[w] IN
              /\ \A j \in KubectlProcs(r.procs) :
                    /\ r.procs[j].kubeconfig = r.path
                    /\ r.procs[j].server = V1Field(r.form, "api")
                    /\ r.procs[j].token = V1Field(r.form, "token")
              /\ (V1HoldsFile(r) /\ r.kc_path # 0) =>
                    fs[r.kc_path] = V1Kubeconfig(w, r.form)
              /\ (V1HoldsFile(r) /\ r.pc # "finally") =>
                    fs[r.path].exists /\ fs[r.path].by = w

\* Two requests are in flight at once, each about to run or running
\* kubectl with a file of its own.
C17_Witness ==
    \E w1, w2 \in Workers :
        /\ w1 # w2
        /\ version = 1
        /\ V1UsesFile(req[w1])
        /\ V1UsesFile(req[w2])
        /\ KubectlProcs(req[w1].procs) # {}
        /\ req[w1].path # req[w2].path

\* C18: no step changes the web process's own environment: KUBECONFIG is
\* set in the copy handed to the child only.
C18_ParentEnvironmentUnchanged == [][environ' = environ]_vars

\* A kubectl child has run with KUBECONFIG pointing at the request's file
\* and the request has returned, on a failure of that child.
C18_Witness ==
    \E w \in Workers :
        /\ V1Returned(w)
        /\ KubectlProcs(req[w].procs) # {}
        /\ Last(req[w].procs).kubeconfig # environ["KUBECONFIG"]
        /\ ~req[w].result.ok

\* The status an audit row is to carry for a handler's primary command
AuditStatus(h) == IF ExitedZero(Last(h.procs)) THEN "success" ELSE "failed"

\* C19: in version4 a request that ran a kubectl command and has returned
\* left an audit row for its action, with status success when the command
\* exited 0 and failed otherwise.
C19_EveryActionAudited ==
    \A b \in Browsers :
        (V4 /\ handler[b].pc = "idle" /\ handler[b].route \in PrimaryRoutes
           /\ handler[b].procs # <<>>) =>
            \E i \in 1..Len(audit) :
                /\ audit[i].action = handler[b].route
                /\ audit[i].status = AuditStatus(handler[b])

\* The usernames whose is_admin flag is set in a users table
Admins(table) == { u \in DOMAIN table : table[u].is_admin }

\* C20: the audit dashboard is rendered only for a logged-in user whose
\* is_admin flag is set, every other caller is redirected, and no web
\* request changes who is an administrator.
C20_DashboardAdminOnly ==
    V4 =>
        /\ \A b \in Browsers :
              handler[b].route = "audit_dashboard" =>
                  IF login[b] # None /\ users[login[b]].is_admin
                  THEN handler[b].status = "shown"
                  ELSE handler[b].status \in {"login", "error"}
        /\ Admins(users) = Admins(StartUsers)

\* An account was registered over the web, and a logged-in user who is not
\* an administrator was refused the dashboard.
C20_Witness ==
    \E b \in Browsers :
        /\ V4
        /\ DOMAIN users # DOMAIN StartUsers
        /\ handler[b].route = "audit_dashboard"
        /\ login[b] # None
        /\ handler[b].flash = <<"Access denied. Admin privileges required.">>

\* The five steps of validate_cluster_connection, in order
ConnectVerbs ==
    <<"config set-cluster", "config set-credentials", "config set-context",
      "config use-context", "get nodes">>

\* The record of a connect_cluster request whose five steps all exited 0
ConnectedByFive(h) ==
    /\ h.route = "connect_cluster"
    /\ Len(h.procs) = 5
    /\ \A i \in 1..5 : h.procs[i].verb = ConnectVerbs[i] /\ ExitedZero(h.procs[i])

\* The routes that act on the connected cluster
ActionRoutes == PrimaryRoutes \ {"connect_cluster"}

NotConnectedText(route) ==
    IF route = "get_resources"
    THEN <<"Not connected to cluster">>
    ELSE <<"Please connect to a cluster first">>

\* A refusal for want of a connection: nothing started, the message given
ToldToConnect(h) ==
    /\ h.pc = "idle"
    /\ h.procs = <<>>
    /\ h.status = "error"
    /\ h.flash = NotConnectedText(h.route)

\* The flag becomes true only in a connect whose five steps exited 0, and
\* is false after a disconnect that was carried out.
FlagFollowsConnect ==
    /\ \A b \in Browsers :
          (~Connected(b) /\ Connected(b)') => ConnectedByFive(handler'[b])
    /\ \A b \in Browsers :
          (handler'[b].route = "disconnect_cluster" /\ handler'[b].status = "info")
              => ~Connected(b)'

\* C21 as stated: the flag follows connect and disconnect, and while it is
\* false every action request starts no process and reports that a cluster
\* must be connected first.
C21_NotConnectedToldToConnect ==
    [][/\ FlagFollowsConnect
       /\ \A b \in Browsers :
            (handler'[b].route \in ActionRoutes /\ ~Connected(b)')
                => ToldToConnect(handler'[b])]_vars

\* C21 amended: the flag follows connect and disconnect, and while it is
\* false every action request starts no process; it reports that a cluster
\* must be connected first, except that version4 sends a caller who is not
\* logged in to the login page instead (get_resources aside, which asks
\* for no login).
C21_NotConnectedNothingSpawned ==
    [][/\ FlagFollowsConnect
       /\ \A b \in Browsers :
            (handler'[b].route \in ActionRoutes /\ ~Connected(b)') =>
                IF V4 /\ login'[b] = None /\ handler'[b].route # "get_resources"
                THEN /\ handler'[b].pc = "idle"
                     /\ handler'[b].procs = <<>>
                     /\ handler'[b].status = "login"
                ELSE ToldToConnect(handler'[b])]_vars

\* A connect sequence ran, and later an action request of a session that
\* is not connected was told to connect first.
C21_Witness ==
    \E b \in Browsers :
        /\ version \in {2, 4}
        /\ handler[b].route \in ActionRoutes
        /\ ~Connected(b)
        /\ ToldToConnect(handler[b])
        /\ kubeconfig.current # <<>>

\* C22: no failure of a request escapes its handler as an unhandled
\* exception: every finished request of version1 rendered a page (no
\* 500), and no request of version2 or version4 ended in a raised error.
C22_EveryFailureRendered ==
    /\ \A w \in Workers :
         req[w].handler \in V1Handlers => req[w].result.code # 500
    /\ \A b \in Browsers :
         handler[b].route \in PrimaryRoutes => handler[b].status # "raised"

RECURSIVE LinesFrom(_, _, _)
LinesFrom(s, cur, acc) ==
    IF s = <<>>
    THEN IF cur = <<>> THEN acc ELSE Append(acc, cur)
    ELSE IF Head(s) = "\n"
         THEN LinesFrom(Tail(s), <<>>, Append(acc, cur))
         ELSE LinesFrom(Tail(s), Append(cur, Head(s)), acc)

\* The lines of a text, as a reader of YAML meets them
YamlLines(text) == LinesFrom(text, <<>>, <<>>)

\* A manifest of the same kind whose values are plain words
PlainManifest(m) ==
    [k \in DOMAIN m |-> IF k = "kind" THEN m.kind ELSE <<"v">>]

\* The text read by kubectl has the lines of the handler's template, one
\* key on each, and the line of every key holds the value submitted.
OneObjectAsSubmitted(m) ==
    LET lines == YamlLines(V1Text(m))
        plain == YamlLines(V1Text(PlainManifest(m)))
    IN  /\ Len(lines) = Len(plain)
        /\ \A i \in 1..Len(plain) : Head(lines[i]) = Head(plain[i])

\* C23: the manifest that a structured Deployment or Service request
\* writes to kubectl's standard input describes exactly one object whose
\* fields are the values submitted, with no further key or document.
C23_ManifestIsOneObject ==
    /\ \A w \in Workers :
         \A m \in Applied(req[w].procs, "Deployment") \cup Applied(req[w].procs, "Service") :
            /\ OneObjectAsSubmitted(m)
            /\ m.name = V1Field(req[w].form, "name")
    /\ \A b \in Browsers :
         /\ \A m \in Applied(handler[b].procs, "Deployment") :
              /\ m.name = Strip(FormGet(handler[b].form, "deployment_name", <<>>))
              /\ m.image = Strip(FormGet(handler[b].form, "deployment_image", <<>>))
         /\ \A m \in Applied(handler[b].procs, "Service") :
              m.name = Strip(FormGet(handler[b].form, "service_name", <<>>))

\* C24: a failed login leaves one audit row 'login_failed' with status
\* 'failed', leaves no user logged in and shows the login page again with
\* 'Invalid username or password'; and every audit row has a user.
C24_FailedLoginAudited ==
    /\ \A b \in Browsers :
         (handler[b].route = "login" /\ handler[b].pc = "idle"
            /\ handler[b].status # "success") =>
              /\ handler[b].status = "error"
              /\ handler[b].flash = <<"Invalid username or password">>
              /\ \E i \in 1..Len(audit) :
                   audit[i].action = "login_failed" /\ audit[i].status = "failed"
    /\ \A i \in 1..Len(audit) : audit[i].user_id # None

\* The TLS fields of the form that the request of worker w submitted
SkipTls(w) == FormGet(req[w].form, "skip_tls", <<>>) # <<>>

CaCert(w) == V1Field(req[w].form, "ca_cert")

\* C25: a kubeconfig written by version1 build_kubeconfig holds one TLS
\* mode at most: insecure-skip-tls-verify exactly when skip_tls is set,
\* certificate-authority-data exactly when skip_tls is not set and a CA
\* certificate was given (then the encoded certificate), never both, and
\* neither when neither was given.
C25_OneTlsMode ==
    \A p \in Paths :
        (version = 1 /\ fs[p].written) =>
            LET w == fs[p].by IN
            /\ ~(fs[p].insecure /\ fs[p].ca # <<>>)
            /\ fs[p].insecure = SkipTls(w)
            /\ fs[p].ca = IF ~SkipTls(w) /\ CaCert(w) # <<>>
                          THEN Base64(CaCert(w)) ELSE <<>>

\* A kubeconfig was written for a form that sets skip_tls and gives a CA
\* certificate too: it skips verification and embeds no certificate.
C25_Witness ==
    /\ version = 1
    /\ \E p \in Paths :
         /\ fs[p].written
         /\ SkipTls(fs[p].by)
         /\ CaCert(fs[p].by) # <<>>
         /\ fs[p].insecure
         /\ fs[p].ca = <<>>

\* C26: in version4 every kubectl process is started for a user who is
\* logged in: the browser whose request started one has a user logged in.
C26_ProcessesOnlyForLoggedIn ==
    \A b \in Browsers :
        (V4 /\ KubectlProcs(handler[b].procs) # {}) => login[b] # None

\* C27: a connect_cluster that failed leaves the connection as it was.
\* After two requests, one a connect_cluster that connected browser b and
\* the other a connect_cluster of another browser that failed, the
\* cluster that the next action request of b runs against is the one
\* recorded in the session of b.
C27_FailedConnectKeepsCluster ==
    \A b \in Browsers : \A c \in Browsers \ {b} :
        (/\ version \in {2, 4}
         /\ nreq = 2
         /\ ConnectedByFive(handler[b])
         /\ handler[b].pc = "idle"
         /\ Connected(b)
         /\ handler[c].route = "connect_cluster"
         /\ handler[c].pc = "idle"
         /\ handler[c].status = "error") =>
            /\ CurrentServer = SessionGet(b, "cluster_endpoint", <<>>)
            /\ CurrentToken = SessionGet(b, "cluster_token", <<>>)

\* The audit rows that record the registration of user u
RegisterRows(u) ==
    { i \in 1..Len(audit) : audit[i].action = "register" /\ audit[i].user_id = u }

\* C28: with /register requests running side by side, no two users share
\* a username or an email address; every user created has is_admin false
\* and exactly one 'register' audit row; and a request for a username or
\* email address that is taken creates nothing and shows the form again
\* with an error, so that no register request ends in an exception.
C28_RegisterKeepsAccountsUnique ==
    /\ \A u, v \in DOMAIN users : u # v => users[u].email # users[v].email
    /\ \A u \in DOMAIN users \ DOMAIN StartUsers :
         ~users[u].is_admin /\ Cardinality(RegisterRows(u)) = 1
    /\ \A b \in Browsers :
         (handler[b].route = "register" /\ handler[b].pc = "idle") =>
            \/ handler[b].status = "success"
            \/ /\ handler[b].status = "error"
               /\ handler[b].flash \in { <<"Username already exists">>,
                                          <<"Email already registered">> }

\* C29: a disconnect_cluster that ran removes the four keys
\* cluster_connected, cluster_endpoint, cluster_name and cluster_token from
\* the session and leaves every other entry as it was; on a session that
\* holds none of the four, so also the second time, it changes nothing.
C29_DisconnectRemovesFourKeys ==
    [][\A b \in Browsers :
         (handler'[b].route = "disconnect_cluster" /\ handler'[b].status = "info") =>
            /\ DOMAIN session'[b] =
                 DOMAIN session[b] \ {"cluster_connected", "cluster_endpoint",
                                      "cluster_name", "cluster_token"}
            /\ \A k \in DOMAIN session'[b] : session'[b][k] = session[b][k]]_vars

\* A disconnect_cluster ran on a session that holds the output of an
\* earlier action, and the output is still there.
C29_Witness ==
    \E b \in Browsers :
        /\ handler[b].route = "disconnect_cluster"
        /\ handler[b].status = "info"
        /\ DOMAIN session[b] = {"last_output"}

====
